---- MODULE Spec2Model ----
(***************************************************************************)
(* The REST handlers of the games and characters modules over their two    *)
(* document collections.  A handler is a pure operator from the stored     *)
(* collection and the parsed request to the response and the collection    *)
(* it leaves; one action per handler applies it.  A storage call may       *)
(* throw: the handler's caller picks which of its storage calls does       *)
(* (0: none), and the handler's catch block answers 500.                   *)
(***************************************************************************)
EXTENDS Integers, Sequences, FiniteSets, TLC

VARIABLES
    games,        \* the Games collection, in storage (insertion) order
    characters,   \* the Characters collection, in storage order
    nextGameId,   \* how many documents the Games collection has stored so far, plus one
    nextCharId,   \* how many documents the Characters collection has stored so far, plus one
    req,          \* the request being answered ([op |-> "none"] between requests)
    res,          \* the response written for it
    fault         \* which storage call of the handler threw (0: none)

vars == <<games, characters, nextGameId, nextCharId, req, res, fault>>

(* ------------------------------ bounds -------------------------------- *)
MaxGames == 2        \* documents the Games collection holds at most
MaxCharacters == 2   \* documents the Characters collection holds at most
MaxIds == 2          \* documents each collection stores over a run
MaxQuery == 2        \* largest number written in a page/limit query string

(* --------------------------- JSON values ------------------------------ *)
Undefined == [kind |-> "undefined"]
Null == [kind |-> "null"]
NaN == [kind |-> "NaN"]
Str(s) == [kind |-> "string", s |-> s]
Num(n) == [kind |-> "number", n |-> n]
Arr(l) == [kind |-> "array", l |-> l]

\* A faulty variant: a presence test (value != null) in place of truthiness.
TruthyPresenceOnly(v) ==
    v.kind \notin {"undefined", "null"}

\* JavaScript ToBoolean, as "!req.body[field]" and "if (title)" apply it.
Truthy(v) ==
    CASE v.kind = "undefined" -> FALSE
      [] v.kind = "null" -> FALSE
      [] v.kind = "NaN" -> FALSE
      [] v.kind = "string" -> v.s # ""
      [] v.kind = "number" -> v.n # 0
      [] v.kind = "array" -> TRUE

(* --------------------------- identifiers ------------------------------ *)
HexDigits ==
    {"0", "1", "2", "3", "4", "5", "6", "7", "8", "9",
     "a", "b", "c", "d", "e", "f", "A", "B", "C", "D", "E", "F"}

\* mongoose.Types.ObjectId.isValid on a string: 24 hexadecimal characters.
isValid(id) ==
    /\ Len(id) = 24
    /\ \A i \in 1..24 : id[i] \in HexDigits

\* The identifier of the k-th document a collection stores; the first
\* character tells the two collections apart.  (The identifier generated for
\* a document whose save fails is never stored or returned, so the generator
\* is taken to advance when a document is stored.)
ObjectIdOf(prefix, k) ==
    [i \in 1..24 |-> IF i = 1 THEN prefix ELSE IF i = 24 THEN ToString(k) ELSE "0"]

GameIdOf(k) == ObjectIdOf("a", k)
CharIdOf(k) == ObjectIdOf("c", k)

(* ---------------------------- responses ------------------------------- *)
Json(status, body) == [status |-> status, body |-> body]
Message(text) == [message |-> text]

RequiredMessage(field) == "The field \"" \o field \o "\" is required"
InternalServerError == Message("Internal Server Error")
InvalidGameID == Message("Invalid GameID format")
GameIDNotFound == Message("GameID Not Found")

NoField == ""

Range(s) == {s[i] : i \in DOMAIN s}

(* ------------------------ required-field check ------------------------ *)
RECURSIVE FirstMissingFrom(_, _, _)
FirstMissingFrom(requiredFields, body, i) ==
    IF i > Len(requiredFields) THEN NoField
    ELSE IF ~Truthy(body[requiredFields[i]]) THEN requiredFields[i]
    ELSE FirstMissingFrom(requiredFields, body, i + 1)

\* A faulty variant: the loop keeps going and the last missing field is reported.
RECURSIVE LastMissingFrom(_, _, _)
LastMissingFrom(requiredFields, body, i) ==
    IF i < 1 THEN NoField
    ELSE IF ~Truthy(body[requiredFields[i]]) THEN requiredFields[i]
    ELSE LastMissingFrom(requiredFields, body, i - 1)

FirstMissingLast(requiredFields, body) ==
    LastMissingFrom(requiredFields, body, Len(requiredFields))

\* "for (const field of requiredFields) if (!req.body[field]) ... return":
\* the first field of the list whose value is falsy, NoField when none is.
FirstMissing(requiredFields, body) ==
    FirstMissingFrom(requiredFields, body, 1)

(* ------------------------- the Games model ---------------------------- *)
\* Games.findById: the position of the document with this _id, 0 when none.
FindIndex(coll, id) ==
    IF \E i \in 1..Len(coll) : coll[i]._id = id
    THEN CHOOSE i \in 1..Len(coll) : coll[i]._id = id
    ELSE 0

\* A faulty variant: the schema declares no unique index on title.
TitleTakenNever(coll, title, self) ==
    FALSE

\* The unique index on title: another document already holds this title.
TitleTaken(coll, title, self) ==
    \E i \in 1..Len(coll) : coll[i].title = title /\ coll[i]._id # self

createGameRequired ==
    <<"title", "releaseYear", "platforms", "genre", "description", "developer">>

\* new Games({title, ..., developer}): mainCharacters takes the schema's
\* default, the empty array (enemies, locations and __v, which no handler
\* writes, are left out of the document).
NewGame(id, body) ==
    [_id |-> id,
     title |-> body.title,
     releaseYear |-> body.releaseYear,
     platforms |-> body.platforms,
     genre |-> body.genre,
     description |-> body.description,
     developer |-> body.developer,
     mainCharacters |-> Arr(<<>>)]

Out(r, gs, nid) == [res |-> r, games |-> gs, nextId |-> nid]

\* A faulty variant: the response is written without the document being saved.
createGameUnsaved(gs, nid, body, f) ==
    LET missing == FirstMissing(createGameRequired, body)
        newGame == NewGame(GameIdOf(nid), body)
    IN  IF missing # NoField
        THEN Out(Json(400, Message(RequiredMessage(missing))), gs, nid)
        ELSE IF f = 1 \/ TitleTaken(gs, newGame.title, newGame._id)
        THEN Out(Json(500, InternalServerError), gs, nid)
        ELSE Out(Json(201, newGame), gs, nid + 1)

createGame(gs, nid, body, f) ==
    LET missing == FirstMissing(createGameRequired, body)
        newGame == NewGame(GameIdOf(nid), body)
    IN  IF missing # NoField
        THEN Out(Json(400, Message(RequiredMessage(missing))), gs, nid)
        ELSE IF f = 1 \/ TitleTaken(gs, newGame.title, newGame._id)
        THEN Out(Json(500, InternalServerError), gs, nid)
        ELSE Out(Json(201, newGame), Append(gs, newGame), nid + 1)

\* Number(req.query.page): a decimal numeral parses to its number, anything
\* else (an absent parameter, "abc") to NaN.
NumberOf(q) ==
    IF q.kind = "string" /\ \E n \in -MaxQuery..MaxQuery : ToString(n) = q.s
    THEN Num(CHOOSE n \in -MaxQuery..MaxQuery : ToString(n) = q.s)
    ELSE NaN

\* "Number(req.query.page) || 1": the default replaces every falsy number.
OrDefault(v, default) ==
    IF Truthy(v) THEN v.n ELSE default

DefaultPage == 1
DefaultLimit == 10

Min(a, b) == IF a < b THEN a ELSE b
Max(a, b) == IF a > b THEN a ELSE b

\* A faulty variant: skip counts pages, not documents.
SliceByPage(coll, skip, limit) ==
    SubSeq(coll, (skip \div limit) + 1, Min((skip \div limit) + limit, Len(coll)))

\* Model.find().skip(skip).limit(limit), in storage order.
Slice(coll, skip, limit) ==
    SubSeq(coll, skip + 1, Min(skip + limit, Len(coll)))

\* The references of one array that resolve in the other collection, each
\* projected by proj; a reference that resolves to nothing is dropped.
NameOnly(c) == [_id |-> c._id, name |-> c.name]
TitleOnly(g) == [_id |-> g._id, title |-> g.title]

\* The fields a populate call selects: "name", "title", or the whole document.
Project(d, select) ==
    IF select = "name" THEN NameOnly(d)
    ELSE IF select = "title" THEN TitleOnly(d)
    ELSE d

RECURSIVE Resolve(_, _, _)
Resolve(refs, coll, select) ==
    IF refs = <<>> THEN <<>>
    ELSE LET i == FindIndex(coll, Head(refs))
         IN  (IF i = 0 THEN <<>> ELSE <<Project(coll[i], select)>>)
             \o Resolve(Tail(refs), coll, select)

\* The references a field holds: the elements of an array, none otherwise.
RefsOf(v) == IF v.kind = "array" THEN v.l ELSE <<>>

\* .populate("mainCharacters", "name") on a page of games.
PopulateMainCharacters(page, cs) ==
    [i \in 1..Len(page) |->
        [page[i] EXCEPT !.mainCharacters = Arr(Resolve(RefsOf(@), cs, "name"))]]

PageAndLimit == Message("Page and limit must be positive numbers")

getAllGames(gs, cs, query, f) ==
    LET page == OrDefault(NumberOf(query.page), DefaultPage)
        limit == OrDefault(NumberOf(query.limit), DefaultLimit)
        skip == (page - 1) * limit
    IN  IF page < 1 \/ limit < 1
        THEN Json(400, PageAndLimit)
        ELSE IF f # 0
        THEN Json(500, InternalServerError)
        ELSE Json(200, [page |-> page, limit |-> limit, totalGames |-> Len(gs),
                        games |-> PopulateMainCharacters(Slice(gs, skip, limit), cs)])

getGameById(gs, id, f) ==
    LET i == FindIndex(gs, id)
    IN  IF ~isValid(id) THEN Json(400, InvalidGameID)
        ELSE IF f # 0 THEN Json(500, InternalServerError)
        ELSE IF i = 0 THEN Json(404, GameIDNotFound)
        ELSE Json(200, gs[i])

Remove(coll, i) == SubSeq(coll, 1, i - 1) \o SubSeq(coll, i + 1, Len(coll))

deleteGameById(gs, nid, id, f) ==
    LET i == FindIndex(gs, id)
    IN  IF ~isValid(id) THEN Out(Json(400, InvalidGameID), gs, nid)
        ELSE IF f # 0 THEN Out(Json(500, InternalServerError), gs, nid)
        ELSE IF i = 0 THEN Out(Json(404, GameIDNotFound), gs, nid)
        ELSE Out(Json(200, Message("Game Deleted Correctly")), Remove(gs, i), nid)

updateGameRequired ==
    <<"title", "releaseYear", "platforms", "genre", "description", "developer",
      "mainCharacters">>

\* The document after $set of the fields updateData holds.
Merge(doc, updateData) ==
    LET pick(k) == IF k \in DOMAIN updateData THEN updateData[k] ELSE doc[k]
    IN  [_id |-> doc._id,
         title |-> pick("title"),
         releaseYear |-> pick("releaseYear"),
         platforms |-> pick("platforms"),
         genre |-> pick("genre"),
         description |-> pick("description"),
         developer |-> pick("developer"),
         mainCharacters |-> pick("mainCharacters")]

\* A faulty variant: the null result of a failed lookup is answered like a document.
findByIdAndUpdateNoNullCheck(gs, nid, id, updateData, f) ==
    LET i == FindIndex(gs, id)
        updatedGame == Merge(gs[i], updateData)
    IN  IF f # 0 THEN Out(Json(500, InternalServerError), gs, nid)
        ELSE IF i = 0 THEN Out(Json(200, Null), gs, nid)
        ELSE IF TitleTaken(gs, updatedGame.title, id)
        THEN Out(Json(500, InternalServerError), gs, nid)
        ELSE Out(Json(200, updatedGame), [gs EXCEPT ![i] = updatedGame], nid)

\* Games.findByIdAndUpdate(id, updateData, {new: true}): null when no
\* document has the id, a duplicate-key error when the new title is taken.
findByIdAndUpdate(gs, nid, id, updateData, f) ==
    LET i == FindIndex(gs, id)
        updatedGame == Merge(gs[i], updateData)
    IN  IF f # 0 THEN Out(Json(500, InternalServerError), gs, nid)
        ELSE IF i = 0 THEN Out(Json(404, GameIDNotFound), gs, nid)
        ELSE IF TitleTaken(gs, updatedGame.title, id)
        THEN Out(Json(500, InternalServerError), gs, nid)
        ELSE Out(Json(200, updatedGame), [gs EXCEPT ![i] = updatedGame], nid)

\* A faulty variant: the required fields are checked before the identifier.
updateGameByIdFieldsFirst(gs, nid, id, body, f) ==
    LET missing == FirstMissing(updateGameRequired, body)
    IN  IF missing # NoField
        THEN Out(Json(400, Message(RequiredMessage(missing))), gs, nid)
        ELSE IF ~isValid(id) THEN Out(Json(400, InvalidGameID), gs, nid)
        ELSE findByIdAndUpdate(gs, nid, id,
                               [k \in Range(updateGameRequired) |-> body[k]], f)

updateGameById(gs, nid, id, body, f) ==
    LET missing == FirstMissing(updateGameRequired, body)
    IN  IF ~isValid(id) THEN Out(Json(400, InvalidGameID), gs, nid)
        ELSE IF missing # NoField
        THEN Out(Json(400, Message(RequiredMessage(missing))), gs, nid)
        ELSE findByIdAndUpdate(gs, nid, id,
                               [k \in Range(updateGameRequired) |-> body[k]], f)

\* A faulty variant: every field the body names is copied, falsy or not.
UpdateDataPresent(body) ==
    [k \in {x \in Range(updateGameRequired) : body[x] # Undefined} |-> body[k]]

\* "if (title) updateData.title = title; ...": the truthy fields of the body.
UpdateData(body) ==
    [k \in {x \in Range(updateGameRequired) : Truthy(body[x])} |-> body[k]]

updateGameByIdPatch(gs, nid, id, body, f) ==
    IF ~isValid(id) THEN Out(Json(400, InvalidGameID), gs, nid)
    ELSE findByIdAndUpdate(gs, nid, id, UpdateData(body), f)

(* ----------------------- the Characters model ------------------------ *)
createCharacterRequired ==
    <<"name", "description", "age", "nationality", "height", "weight",
      "occupations", "games">>

\* new Characters({name, ..., games}) (organizations, which no handler
\* writes, is left out of the document).
NewCharacter(id, body) ==
    [_id |-> id,
     name |-> body.name,
     description |-> body.description,
     age |-> body.age,
     nationality |-> body.nationality,
     height |-> body.height,
     weight |-> body.weight,
     occupations |-> body.occupations,
     games |-> body.games]

InvalidGameIds == Message("Invalid game ID(s) in the 'games' field")

COut(r, cs, nid) == [res |-> r, characters |-> cs, nextId |-> nid]

\* newCharacter.populate("games") / .populate("games", "title") on one document.
PopulateGames(c, gs, select) ==
    [c EXCEPT !.games = Arr(Resolve(RefsOf(@), gs, select))]

\* f = 1: save() throws; f = 2: save() is through and populate() throws
\* (populate queries the Games collection only when there is a reference).
\* A truthy "games" that is no array has no every(): the TypeError is caught.
createCharacter(cs, gs, nid, body, f) ==
    LET missing == FirstMissing(createCharacterRequired, body)
        newCharacter == NewCharacter(CharIdOf(nid), body)
    IN  IF missing # NoField
        THEN COut(Json(400, Message(RequiredMessage(missing))), cs, nid)
        ELSE IF body.games.kind # "array"
        THEN COut(Json(500, InternalServerError), cs, nid)
        ELSE IF ~(\A i \in 1..Len(body.games.l) : isValid(body.games.l[i]))
        THEN COut(Json(400, InvalidGameIds), cs, nid)
        ELSE IF f = 1
        THEN COut(Json(500, InternalServerError), cs, nid)
        ELSE IF f = 2 /\ body.games.l # <<>>
        THEN COut(Json(500, InternalServerError), Append(cs, newCharacter), nid + 1)
        ELSE COut(Json(201, PopulateGames(newCharacter, gs, "*")),
                  Append(cs, newCharacter), nid + 1)

getAllCharacters(cs, gs, query, f) ==
    LET page == OrDefault(NumberOf(query.page), DefaultPage)
        limit == OrDefault(NumberOf(query.limit), DefaultLimit)
        skip == (page - 1) * limit
        found == Slice(cs, skip, limit)
    IN  IF page < 1 \/ limit < 1
        THEN Json(400, PageAndLimit)
        ELSE IF f # 0
        THEN Json(500, InternalServerError)
        ELSE Json(200, [page |-> page, limit |-> limit, totalCharacters |-> Len(cs),
                        characters |->
                            [i \in 1..Len(found) |-> PopulateGames(found[i], gs, "title")]])

(* ------------------------------ inputs -------------------------------- *)
Titles == {"RE1", "RE2"}

Falsy == {Undefined, Null, Str(""), Num(0)}

\* Inside an array a string is its characters, as an identifier is.
PS1 == <<"P", "S", "1">>
Officer == <<"c", "o", "p">>

Abc == <<"a", "b", "c">>
NotHex == [i \in 1..24 |-> "g"]
MalformedIds == {Abc, NotHex}
\* GameIdOf(0) is well-formed and never generated.
WellFormedIds == {GameIdOf(k) : k \in 0..MaxIds}
PathIds == MalformedIds \cup WellFormedIds

GameFields == Range(updateGameRequired)

GameBase ==
    [title |-> Str("RE1"), releaseYear |-> Num(1996), platforms |-> Arr(<<PS1>>),
     genre |-> Str("horror"), description |-> Str("d"), developer |-> Str("Capcom"),
     mainCharacters |-> Arr(<<CharIdOf(1)>>)]

EmptyGameBody == [k \in GameFields |-> Undefined]

\* The truthy values a request gives each field.
GameValues(k) ==
    CASE k = "title" -> {Str(t) : t \in Titles}
      [] k = "releaseYear" -> {Num(1996), Num(1998)}
      [] k = "platforms" -> {Arr(<<PS1>>), Arr(<<>>)}
      [] k = "mainCharacters" -> {Arr(<<CharIdOf(1)>>), Arr(<<>>)}
      [] OTHER -> {GameBase[k]}

FullGameBodies ==
    {[GameBase EXCEPT !.title = t, !.releaseYear = y, !.platforms = p,
                      !.mainCharacters = m] :
        t \in GameValues("title"), y \in {GameBase.releaseYear},
        p \in GameValues("platforms"),
        m \in GameValues("mainCharacters") \cup {Undefined}}

\* A full body with one field, or two fields, falsy; and one with an empty
\* list ahead of a falsy field.
FalsyGameBodies ==
    {[GameBase EXCEPT ![k] = v] : k \in GameFields, v \in Falsy}
    \cup {[GameBase EXCEPT ![k1] = v, ![k2] = v] :
            k1 \in GameFields, k2 \in GameFields, v \in {Undefined}}
    \cup {[GameBase EXCEPT !.platforms = Arr(<<>>), !.developer = v] : v \in Falsy}

\* A body that names one field, or the title and one more field.
SparseGameBodies ==
    {EmptyGameBody}
    \cup UNION {{[EmptyGameBody EXCEPT ![k] = v] :
                    v \in GameValues(k) \cup Falsy} : k \in GameFields}
    \cup UNION {{[EmptyGameBody EXCEPT !.title = Str("RE2"), ![k] = v] :
                    v \in GameValues(k)} : k \in GameFields \ {"title"}}

GameBodies == FullGameBodies \cup FalsyGameBodies \cup SparseGameBodies

CharacterFields == Range(createCharacterRequired)

CharacterBase ==
    [name |-> Str("Jill"), description |-> Str("d"), age |-> Num(23),
     nationality |-> Str("US"), height |-> Str("166cm"), weight |-> Str("50kg"),
     occupations |-> Arr(<<Officer>>), games |-> Arr(<<GameIdOf(1)>>)]

CharacterBodies ==
    {[CharacterBase EXCEPT !.games = g] :
        g \in {Arr(<<>>), Arr(<<GameIdOf(1)>>), Arr(<<Abc>>),
               Arr(<<GameIdOf(1), NotHex>>), Str("x")}}
    \cup {[CharacterBase EXCEPT ![k] = v] : k \in CharacterFields, v \in Falsy}
    \cup {[CharacterBase EXCEPT ![k1] = v, ![k2] = v] :
            k1 \in CharacterFields, k2 \in CharacterFields, v \in {Undefined, Num(0)}}

QueryValues ==
    {Undefined, Str("abc")} \cup {Str(ToString(n)) : n \in -1..MaxQuery}
Queries == [page : QueryValues, limit : QueryValues]

(* ------------------------------ actions ------------------------------- *)
Idle == [op |-> "none"]
NoResponse == [status |-> 0]

Init ==
    /\ games = <<>>
    /\ characters = <<>>
    /\ nextGameId = 1
    /\ nextCharId = 1
    /\ req = Idle
    /\ res = NoResponse
    /\ fault = 0

\* A handler that answers 400 returns before its first storage call.
Reached(r, f) == IF r.status = 400 THEN 0 ELSE f

GamesStep(request, out, f) ==
    /\ out.nextId <= MaxIds + 1
    /\ Len(out.games) <= MaxGames
    /\ req' = request
    /\ res' = out.res
    /\ games' = out.games
    /\ nextGameId' = out.nextId
    /\ fault' = Reached(out.res, f)
    /\ UNCHANGED <<characters, nextCharId>>

ReadStep(request, r, f) ==
    /\ req' = request
    /\ res' = r
    /\ fault' = Reached(r, f)
    /\ UNCHANGED <<games, characters, nextGameId, nextCharId>>

CreateGame ==
    /\ req = Idle
    /\ \E body \in GameBodies, f \in 0..1 :
        GamesStep([op |-> "createGame", body |-> body],
                  createGame(games, nextGameId, body, f), f)

GetAllGames ==
    /\ req = Idle
    /\ \E query \in Queries, f \in 0..2 :
        ReadStep([op |-> "getAllGames", query |-> query],
                 getAllGames(games, characters, query, f), f)

GetGameById ==
    /\ req = Idle
    /\ \E id \in PathIds, f \in 0..1 :
        ReadStep([op |-> "getGameById", id |-> id], getGameById(games, id, f), f)

DeleteGameById ==
    /\ req = Idle
    /\ \E id \in PathIds, f \in 0..1 :
        GamesStep([op |-> "deleteGameById", id |-> id],
                  deleteGameById(games, nextGameId, id, f), f)

UpdateGameById ==
    /\ req = Idle
    /\ \E id \in PathIds, body \in GameBodies, f \in 0..1 :
        GamesStep([op |-> "updateGameById", id |-> id, body |-> body],
                  updateGameById(games, nextGameId, id, body, f), f)

UpdateGameByIdPatch ==
    /\ req = Idle
    /\ \E id \in PathIds, body \in GameBodies, f \in 0..1 :
        GamesStep([op |-> "updateGameByIdPatch", id |-> id, body |-> body],
                  updateGameByIdPatch(games, nextGameId, id, body, f), f)

CharactersStep(request, out, f) ==
    /\ out.nextId <= MaxIds + 1
    /\ Len(out.characters) <= MaxCharacters
    /\ req' = request
    /\ res' = out.res
    /\ characters' = out.characters
    /\ nextCharId' = out.nextId
    /\ fault' = Reached(out.res, f)
    /\ UNCHANGED <<games, nextGameId>>

CreateCharacter ==
    /\ req = Idle
    /\ \E body \in CharacterBodies, f \in 0..2 :
        /\ f # 0 => createCharacter(characters, games, nextCharId, body, 0).res.status = 201
        /\ f = 2 => body.games.l # <<>>
        /\ CharactersStep([op |-> "createCharacter", body |-> body],
                          createCharacter(characters, games, nextCharId, body, f), f)

GetAllCharacters ==
    /\ req = Idle
    /\ \E query \in Queries, f \in 0..2 :
        ReadStep([op |-> "getAllCharacters", query |-> query],
                 getAllCharacters(characters, games, query, f), f)

\* The response is sent; the next request may be handled.
Respond ==
    /\ req # Idle
    /\ req' = Idle
    /\ res' = NoResponse
    /\ fault' = 0
    /\ UNCHANGED <<games, characters, nextGameId, nextCharId>>

\* The games routes alone.
NextGames ==
    \/ CreateGame
    \/ GetAllGames
    \/ GetGameById
    \/ DeleteGameById
    \/ UpdateGameById
    \/ UpdateGameByIdPatch
    \/ Respond

\* The create and list routes of both modules.
NextCreateAndList ==
    \/ CreateGame
    \/ GetAllGames
    \/ CreateCharacter
    \/ GetAllCharacters
    \/ Respond

\* The three routes that run the required-field check.
NextRequired ==
    \/ CreateGame
    \/ UpdateGameById
    \/ CreateCharacter
    \/ Respond

\* Every route of the server.
Next ==
    \/ CreateGame
    \/ GetAllGames
    \/ GetGameById
    \/ DeleteGameById
    \/ UpdateGameById
    \/ UpdateGameByIdPatch
    \/ CreateCharacter
    \/ GetAllCharacters
    \/ Respond

SpecGames == Init /\ [][NextGames]_vars
SpecRequired == Init /\ [][NextRequired]_vars
SpecCreateAndList == Init /\ [][NextCreateAndList]_vars
Spec == Init /\ [][Next]_vars
(* ------------------------------ claims -------------------------------- *)
\* The claims are read for requests whose storage calls complete (fault = 0)
\* unless they speak of a storage failure themselves: every route answers
\* 500 when a storage call throws.

\* The values the required-field check is said to take for a missing field.
MissingValues == {Undefined, Null, Str(""), Num(0)}
MissingOrEmptyList == MissingValues \cup {Arr(<<>>)}

RequiredOf(op) ==
    IF op = "createGame" THEN createGameRequired
    ELSE IF op = "createCharacter" THEN createCharacterRequired
    ELSE updateGameRequired

\* The first field of the declared order whose value is in the set S.
FirstIn(required, body, S) ==
    LET at == {i \in 1..Len(required) : body[required[i]] \in S}
    IN  IF at = {} THEN NoField
        ELSE required[CHOOSE i \in at : \A j \in at : i <= j]

Rejected(field) == Json(400, [message |-> "The field \"" \o field \o "\" is required"])

Creates == {"createGame", "createCharacter"}
ByIdOps == {"getGameById", "deleteGameById", "updateGameById", "updateGameByIdPatch"}
Lists == {"getAllGames", "getAllCharacters"}

\* C1: a create request (createGame, createCharacter) with at least one
\* required field missing is answered 400 'The field "<name>" is required',
\* <name> being the first missing field of the handler's declared order,
\* and neither collection changes.
C1_FirstMissingFieldRejected ==
    [][(/\ req'.op \in Creates
        /\ FirstIn(RequiredOf(req'.op), req'.body, MissingValues) # NoField)
       => /\ res' = Rejected(FirstIn(RequiredOf(req'.op), req'.body, MissingValues))
          /\ games' = games
          /\ characters' = characters]_vars

\* A createCharacter with two fields missing (age and games) is answered
\* with the earlier one.
C1_Witness ==
    /\ req.op = "createCharacter"
    /\ req.body.age = Num(0)
    /\ req.body.games = Num(0)
    /\ res = Rejected("age")

\* The number a page/limit parameter spells, for the numerals of the model.
NonPositiveNumerals == {Str(ToString(n)) : n \in -MaxQuery..0}
PositiveNumerals == {Str(ToString(n)) : n \in 1..MaxQuery}
Spelled(q) == CHOOSE n \in -MaxQuery..MaxQuery : ToString(n) = q.s

\* C2: a list request (getAllGames, getAllCharacters) with page or limit
\* zero or negative is answered 400, whatever the collection holds.
C2_NonPositiveRejected ==
    (/\ req.op \in Lists
     /\ \/ req.query.page \in NonPositiveNumerals
        \/ req.query.limit \in NonPositiveNumerals)
    => res.status = 400

\* What the code does keep of C2: a negative page or limit is answered 400.
C2_NegativeRejected ==
    (/\ req.op \in Lists
     /\ \/ (req.query.page \in NonPositiveNumerals /\ req.query.page # Str("0"))
        \/ (req.query.limit \in NonPositiveNumerals /\ req.query.limit # Str("0")))
    => res.status = 400

\* C3: with N documents stored, a list request for positive page P and limit
\* L is answered 200 with min(L, max(0, N - (P-1)*L)) documents, those at
\* offsets (P-1)*L onwards in storage order, and a total of N.
C3_Pagination ==
    (/\ req.op \in Lists
     /\ req.query.page \in PositiveNumerals
     /\ req.query.limit \in PositiveNumerals
     /\ fault = 0)
    => LET P == Spelled(req.query.page)
           L == Spelled(req.query.limit)
           stored == IF req.op = "getAllGames" THEN games ELSE characters
           N == Len(stored)
           total == IF req.op = "getAllGames" THEN res.body.totalGames
                    ELSE res.body.totalCharacters
           listed == IF req.op = "getAllGames" THEN res.body.games
                     ELSE res.body.characters
       IN  /\ res.status = 200
           /\ total = N
           /\ Len(listed) = Min(L, Max(0, N - (P - 1) * L))
           /\ \A i \in 1..Len(listed) : listed[i]._id = stored[(P - 1) * L + i]._id

\* The second page of two games, one a page.
C3_Witness ==
    /\ req.op = "getAllGames"
    /\ req.query = [page |-> Str("2"), limit |-> Str("1")]
    /\ Len(games) = 2
    /\ res.status = 200
    /\ Len(res.body.games) = 1
    /\ res.body.games[1]._id = games[2]._id

\* C4: get-by-id, PUT, PATCH and delete with a malformed path identifier are
\* answered 400 'Invalid GameID format', never 404, whatever the body and the
\* stored games, and the games collection is unchanged.
C4_MalformedIdRejected ==
    [][(req'.op \in ByIdOps /\ req'.id \in MalformedIds)
       => /\ res' = Json(400, [message |-> "Invalid GameID format"])
          /\ games' = games]_vars

\* A PUT on "abc" whose body also misses a required field, games being stored.
C4_Witness ==
    /\ req.op = "updateGameById"
    /\ req.id = Abc
    /\ req.body.title = Undefined
    /\ games # <<>>
    /\ res = Json(400, [message |-> "Invalid GameID format"])

NotFound == Json(404, [message |-> "GameID Not Found"])
Unstored(gs, id) == id \in WellFormedIds /\ \A i \in 1..Len(gs) : gs[i]._id # id

\* C5 as stated: PUT, PATCH and delete on a well-formed identifier that names
\* no stored game are answered 404 'GameID Not Found', the games unchanged.
C5_UnstoredIdNotFound ==
    [][(/\ req'.op \in {"updateGameById", "updateGameByIdPatch", "deleteGameById"}
        /\ Unstored(games, req'.id)
        /\ fault' = 0)
       => (res' = NotFound /\ games' = games)]_vars

\* C5 as amended: PATCH and delete on a well-formed identifier that names no
\* stored game, and PUT on one with a body whose seven required fields are
\* all given, are answered 404 'GameID Not Found'; a PUT whose body misses a
\* required field is answered 400 naming the first such field; the games are
\* unchanged in each case.
C5_UnstoredIdNotFoundOrFieldRequired ==
    [][(/\ req'.op \in {"updateGameById", "updateGameByIdPatch", "deleteGameById"}
        /\ Unstored(games, req'.id)
        /\ fault' = 0)
       => LET missing == IF req'.op = "updateGameById"
                         THEN FirstIn(updateGameRequired, req'.body, MissingValues)
                         ELSE NoField
          IN  /\ res' = IF missing = NoField THEN NotFound ELSE Rejected(missing)
              /\ games' = games]_vars

\* A PUT with a full body on an identifier that names none of the stored games.
C5_Witness ==
    /\ req.op = "updateGameById"
    /\ games # <<>>
    /\ Unstored(games, req.id)
    /\ FirstIn(updateGameRequired, req.body, MissingValues) = NoField
    /\ res = NotFound

\* C6: after a createGame answered 201, a get-by-id with the identifier of
\* the returned record is answered 200 with a record equal to it.
C6_CreatedIsFound ==
    (req.op = "createGame" /\ res.status = 201)
    => getGameById(games, res.body._id, 0) = Json(200, res.body)

\* The second game is created, by a request that names main characters.
C6_Witness ==
    /\ req.op = "createGame"
    /\ res.status = 201
    /\ Len(games) = 2
    /\ req.body.mainCharacters = Arr(<<CharIdOf(1)>>)
    /\ res.body.mainCharacters = Arr(<<>>)

UniqueTitles(gs) ==
    \A i \in 1..Len(gs), j \in 1..Len(gs) : gs[i].title = gs[j].title => i = j

\* C7: no two stored games ever have the same title, and a createGame that
\* passes the field check with the title of a stored game is answered 500
\* 'Internal Server Error' and stores nothing.
C7_TitlesUnique ==
    [][/\ UniqueTitles(games')
       /\ (/\ req'.op = "createGame"
           /\ FirstIn(createGameRequired, req'.body, MissingValues) = NoField
           /\ \E i \in 1..Len(games) : games[i].title = req'.body.title)
          => (res' = Json(500, [message |-> "Internal Server Error"])
              /\ games' = games)]_vars

\* A PATCH that would give the second game the title of the first is refused.
C7_Witness ==
    /\ req.op = "updateGameByIdPatch"
    /\ Len(games) = 2
    /\ req.id = games[2]._id
    /\ req.body.title = games[1].title
    /\ fault = 0
    /\ res.status = 500

\* The document a PATCH is said to leave: the given, truthy fields replaced.
Patched(doc, body) ==
    [k \in DOMAIN doc |->
        IF k \in GameFields /\ body[k] \notin MissingValues THEN body[k] ELSE doc[k]]

SameDocument(d, e) == DOMAIN d = DOMAIN e /\ \A k \in DOMAIN d : d[k] = e[k]

\* C8: a PATCH on a stored game runs no required-field check (it is never
\* answered 400 or 404); it is answered 200 with the record in which exactly
\* the given, truthy fields of the seven are replaced, every other field and
\* every other game untouched, unless the new title is another game's (500,
\* nothing changed); with none of the seven given the record is unchanged.
C8_PatchFrame ==
    [][(/\ req'.op = "updateGameByIdPatch"
        /\ FindIndex(games, req'.id) # 0
        /\ fault' = 0)
       => LET i == FindIndex(games, req'.id)
              want == Patched(games[i], req'.body)
              clash == \E j \in 1..Len(games) : j # i /\ games[j].title = want.title
          IN  IF clash
              THEN res'.status = 500 /\ games' = games
              ELSE /\ res'.status = 200
                   /\ SameDocument(res'.body, want)
                   /\ Len(games') = Len(games)
                   /\ SameDocument(games'[i], want)
                   /\ \A j \in 1..Len(games) : j # i => games'[j] = games[j]
                   /\ req'.body = EmptyGameBody => games' = games]_vars

\* A PATCH that gives a new title and an empty release year changes the
\* title alone.
C8_Witness ==
    /\ req.op = "updateGameByIdPatch"
    /\ res.status = 200
    /\ Len(games) = 2
    /\ \E k \in GameFields : req.body[k] \in {Null, Str(""), Num(0)}
    /\ \E k \in GameFields : req.body[k] \notin MissingValues /\ res.body[k] = req.body[k]
    /\ \E k \in GameFields : req.body[k] \in MissingValues /\ res.body[k] # req.body[k]

Checked == {"createGame", "createCharacter", "updateGameById"}
RunsCheck == req.op \in Checked /\ (req.op = "updateGameById" => req.id \in WellFormedIds)
AnyRejected == {Rejected(k) : k \in GameFields \cup CharacterFields}

\* C9 as stated: in createGame, createCharacter and PUT a required field that
\* is absent, an empty string, zero, null or an empty list counts as missing,
\* and the request is answered 400 naming the field.
C9_FalsyOrEmptyListRejected ==
    (RunsCheck /\ FirstIn(RequiredOf(req.op), req.body, MissingOrEmptyList) # NoField)
    => res = Rejected(FirstIn(RequiredOf(req.op), req.body, MissingOrEmptyList))

\* C9 as amended: a required field counts as missing when it is absent, an
\* empty string, zero or null, and the request is then answered 400 naming
\* the first such field; an empty list does not count as missing: a request
\* whose required fields are missing in no other way passes the check.
C9_FalsyRejectedEmptyListPasses ==
    RunsCheck
    => LET missing == FirstIn(RequiredOf(req.op), req.body, MissingValues)
       IN  IF missing # NoField THEN res = Rejected(missing)
           ELSE res \notin AnyRejected

\* A createGame with platforms: [] is stored.
C9_Witness ==
    /\ req.op = "createGame"
    /\ req.body.platforms = Arr(<<>>)
    /\ res.status = 201
    /\ games[Len(games)].platforms = Arr(<<>>)

\* C10: a request answered 400, 404 or 500 leaves both collections as they
\* were, also when a storage call fails part-way through the handler.
C10_ErrorsChangeNothing ==
    [][res'.status \in {400, 404, 500}
       => (games' = games /\ characters' = characters)]_vars
====
